---- MODULE Spec2Model ----
(***************************************************************************)
(* Model of src/app.py: the US options strategy analyzer.                  *)
(*                                                                         *)
(* Units.  Prices, strikes and premiums are integers in cents (1.00 is     *)
(* 100), so the grid step 0.5 is 50.  Currency amounts are cents times the *)
(* contract multiplier.  Python's float arithmetic is modelled as exact    *)
(* arithmetic: sums and products are integers, and the results of the true *)
(* divisions of lines 27, 152, 157 and 159 are reduced fractions.          *)
(***************************************************************************)
EXTENDS Integers, Sequences, FiniteSets, TLC

\* ------------------------------------------------------------------ bounds
\* number of strike values offered in the sidebar
NumStrikes == 5
\* number of premium values offered in the sidebar
NumPremiums == 4
\* number of strike values a direct caller of the engine supplies
NumEngineStrikes == 2
\* number of premium values a direct caller of the engine supplies
NumEnginePremiums == 2

\* 100.00, 110.00, 90.00, 95.00, 105.00, ... in cents
StrikeTable == <<10000, 11000, 9000, 9500, 10500, 11500, 8500, 12000>>
\* 2.50, 0.80, 3.00, 1.20, ... in cents
PremiumTable == <<250, 80, 300, 120, 0, 180, 50, 600>>

Strikes == {StrikeTable[i] : i \in 1..NumStrikes}
Premiums == {PremiumTable[i] : i \in 1..NumPremiums}
EngineStrikes == {StrikeTable[i] : i \in 1..NumEngineStrikes}
EnginePremiums == {PremiumTable[i] : i \in 1..NumEnginePremiums}
Multipliers == {1, 100}

\* ------------------------------------------------------- program constants
\* the step of np.arange, 0.5
GridStep == 50
\* the buffer used when all strikes coincide, 20
FallbackBuffer == 2000

StrategyNames == {"Bull Call Spread", "Bear Put Spread", "Bull Put Spread",
                  "Bear Call Spread", "Butterfly Spread", "Iron Condor"}

\* --------------------------------------------------------------- arithmetic
Abs(x) == IF x < 0 THEN -x ELSE x

Maximum(a, b) == IF a >= b THEN a ELSE b

Sign(x) == IF x > 0 THEN 1 ELSE IF x < 0 THEN -1 ELSE 0

RECURSIVE GCD(_, _)
GCD(a, b) == IF b = 0 THEN a ELSE GCD(b, a % b)

\* a float that is the quotient n/d, d # 0, as a reduced fraction
Real(n, d) ==
    LET s == IF d < 0 THEN -1 ELSE 1
        g == GCD(Abs(n), Abs(d))
    IN [kind |-> "real", num |-> (s * n) \div g, den |-> (s * d) \div g]

NaN == [kind |-> "nan", num |-> 0, den |-> 1]
PosInf == [kind |-> "inf", num |-> 1, den |-> 1]
ZeroDivision == [kind |-> "zero_division", num |-> 0, den |-> 1]

\* the true division n / d; a zero denominator is kept as a marker
Divide(n, d) == IF d = 0 THEN ZeroDivision ELSE Real(n, d)

\* x - q for an integer x and a quotient q
Minus(x, q) ==
    IF q.kind = "real" THEN Real(x * q.den - q.num, q.den) ELSE q

\* q * k for a quotient q and an integer k
Times(q, k) ==
    IF q.kind = "real" THEN Real(q.num * k, q.den) ELSE q

Range(s) == {s[i] : i \in 1..Len(s)}

\* min(...) and max(...) of a non-empty list, np.min and np.max of an array
SetMin(r) == CHOOSE x \in r : \A y \in r : x <= y
SetMax(r) == CHOOSE x \in r : \A y \in r : x >= y
SeqMin(s) == SetMin(Range(s))
SeqMax(s) == SetMax(Range(s))

\* the elements of a finite set of integers in ascending order
RECURSIVE Ascending(_)
Ascending(set) ==
    IF set = {} THEN <<>>
    ELSE LET m == CHOOSE x \in set : \A y \in set : x <= y
         IN <<m>> \o Ascending(set \ {m})

\* -------------------------------------------------------------------- legs
Leg(t, k, p) == [type |-> t, strike |-> k, premium |-> p]

\* leg['type'].startswith('long')
StartsWithLong(t) == t \in {"long_call", "long_put"}
\* leg['type'].startswith('short')
StartsWithShort(t) == t \in {"short_call", "short_put"}
\* 'call' in leg['type']
ContainsCall(t) == t \in {"long_call", "short_call"}

\* ---------------------------------------------------------- calculate_payoff
direction(leg) == IF StartsWithLong(leg.type) THEN 1 ELSE -1

\* a put valued like a call
intrinsic_value_call_only(s, leg) == Maximum(0, s - leg.strike)

intrinsic_value(s, leg) ==
    IF ContainsCall(leg.type) THEN Maximum(0, s - leg.strike)
                              ELSE Maximum(0, leg.strike - s)

\* the loop of lines 19-22, from leg j on, at one grid price s
RECURSIVE PayoffFrom(_, _, _)
PayoffFrom(s, details, j) ==
    IF j > Len(details) THEN 0
    ELSE direction(details[j]) * intrinsic_value(s, details[j])
         + PayoffFrom(s, details, j + 1)

calculate_payoff(grid, details) ==
    [i \in 1..Len(grid) |-> PayoffFrom(grid[i], details, 1)]

\* ------------------------------------------------------ find_break_even_points
\* only strict sign flips, an exact zero is not its own sign
IndicesStrictFlip(PnL) ==
    Ascending({i \in 1..(Len(PnL) - 1) : Sign(PnL[i + 1]) * Sign(PnL[i]) < 0})

\* np.where(np.diff(np.sign(PnL)))[0]: the indices i, ascending, at which
\* sign(PnL[i+1]) - sign(PnL[i]) is not zero
Indices(PnL) ==
    Ascending({i \in 1..(Len(PnL) - 1) : Sign(PnL[i + 1]) - Sign(PnL[i]) # 0})

Interpolate(grid, PnL, i) ==
    Minus(grid[i], Divide(PnL[i] * (grid[i + 1] - grid[i]), PnL[i + 1] - PnL[i]))

\* the filter of the comprehension of line 27
DenominatorNonZero(PnL, i) == PnL[i + 1] - PnL[i] # 0

RECURSIVE BreakEvensOver(_, _, _)
BreakEvensOver(grid, PnL, idx) ==
    IF idx = <<>> THEN <<>>
    ELSE (IF DenominatorNonZero(PnL, Head(idx))
          THEN <<Interpolate(grid, PnL, Head(idx))>> ELSE <<>>)
         \o BreakEvensOver(grid, PnL, Tail(idx))

find_break_even_points(grid, PnL) == BreakEvensOver(grid, PnL, Indices(PnL))

\* -------------------------------------------------------- calculate_us_margin
signed_premium(leg) ==
    IF StartsWithShort(leg.type) THEN leg.premium ELSE -leg.premium

RECURSIVE SumPremiums(_)
SumPremiums(details) ==
    IF details = <<>> THEN 0
    ELSE signed_premium(Head(details)) + SumPremiums(Tail(details))

net_premium(details) == SumPremiums(details)

\* the debit call spread margined as well
CreditShapesAndBullCall ==
    {"Iron Condor", "Bull Put Spread", "Bear Call Spread", "Bull Call Spread"}

CreditShapes == {"Iron Condor", "Bull Put Spread", "Bear Call Spread"}

k_values(details) == [j \in 1..Len(details) |-> details[j].strike]

CallLegs(details) == SelectSeq(details, LAMBDA leg : ContainsCall(leg.type))

\* sorted(...) of line 38
RECURSIVE Insert(_, _)
Insert(x, s) ==
    IF s = <<>> THEN <<x>>
    ELSE IF x <= Head(s) THEN <<x>> \o s ELSE <<Head(s)>> \o Insert(x, Tail(s))

RECURSIVE Sorted(_)
Sorted(s) == IF s = <<>> THEN <<>> ELSE Insert(Head(s), Sorted(Tail(s)))

\* the call strikes in leg order, not sorted
k_calls_unsorted(details) == k_values(CallLegs(details))

k_calls(details) == Sorted(k_values(CallLegs(details)))

Returned(v) == [raised |-> "", value |-> v]
Raised(e) == [raised |-> e, value |-> 0]

\* the iron condor margined on its full width, lines 37-39 left out
calculate_us_margin_full_width(name, details, mult) ==
    IF net_premium(details) <= 0 THEN Returned(0)
    ELSE IF name \in CreditShapes
         THEN Returned((SeqMax(k_values(details)) - SeqMin(k_values(details))) * mult)
         ELSE Returned(0)

calculate_us_margin(name, details, mult) ==
    IF net_premium(details) <= 0 THEN Returned(0)
    ELSE IF name \in CreditShapes
         THEN IF name = "Iron Condor"
              THEN IF Len(k_calls(details)) < 2
                   THEN Raised("IndexError")
                   ELSE Returned((k_calls(details)[2] - k_calls(details)[1]) * mult)
              ELSE Returned((SeqMax(k_values(details)) - SeqMin(k_values(details))) * mult)
         ELSE Returned(0)

\* ------------------------------------------------------------ the main block
\* line 134
Buffer(strike_list) ==
    IF SeqMax(strike_list) > SeqMin(strike_list)
    THEN (3 * (SeqMax(strike_list) - SeqMin(strike_list))) \div 2
    ELSE FallbackBuffer

\* np.arange(lo, hi, step): lo, lo + step, ... strictly below hi
Arange(lo, hi, step) ==
    LET n == IF hi > lo THEN ((hi - lo) + step - 1) \div step ELSE 0
    IN [i \in 1..n |-> lo + (i - 1) * step]

\* line 135
PriceGrid(strike_list) ==
    Arange(SeqMin(strike_list) - Buffer(strike_list),
           SeqMax(strike_list) + Buffer(strike_list), GridStep)

\* line 136
NetPremiumPoints(details) == SumPremiums(details)

\* line 137
PnlCurrency(payoff, npp, mult) ==
    [i \in 1..Len(payoff) |-> (payoff[i] + npp) * mult]

\* the margin taken as the basis of a net debit too
CostBasisMarginOnly(ncc, mrg) == mrg

\* lines 143-149
CostBasis(ncc, mrg) == IF ncc < 0 THEN Abs(ncc) ELSE mrg

\* the guard of line 151 admitting a zero basis
RoiPerPointUnguarded(pnl, basis) ==
    IF basis >= 0
    THEN [i \in 1..Len(pnl) |-> Times(Divide(pnl[i], basis), 100)]
    ELSE [i \in 1..Len(pnl) |-> NaN]

\* lines 151-154
RoiPerPoint(pnl, basis) ==
    IF basis > 0
    THEN [i \in 1..Len(pnl) |-> Times(Divide(pnl[i], basis), 100)]
    ELSE [i \in 1..Len(pnl) |-> NaN]

\* the net premium used for a net debit too
TotalRoiNetPremiumOnly(maxp, ncc, basis) ==
    IF basis > 0 THEN Times(Divide(ncc, basis), 100) ELSE PosInf

\* lines 156-159
TotalRoi(maxp, ncc, basis) ==
    IF ncc < 0
    THEN (IF basis > 0 THEN Times(Divide(maxp, basis), 100) ELSE PosInf)
    ELSE (IF basis > 0 THEN Times(Divide(ncc, basis), 100) ELSE PosInf)

\* -------------------------------------------------------------------- state
VARIABLES pc, multiplier, strategy_name, strategy_details, strikes,
          error_message, S, net_premium_points, total_payoff_points,
          pnl_currency, max_profit,
          max_loss, break_evens, net_cost_credit, margin, raised, cost_basis,
          roi_per_point, total_roi

vars == <<pc, multiplier, strategy_name, strategy_details, strikes,
          error_message, S, net_premium_points, total_payoff_points,
          pnl_currency, max_profit,
          max_loss, break_evens, net_cost_credit, margin, raised, cost_basis,
          roi_per_point, total_roi>>

inputs == <<multiplier, strategy_name, strategy_details, strikes, error_message>>
outputs == <<S, net_premium_points, total_payoff_points, pnl_currency,
             max_profit, max_loss,
             break_evens, net_cost_credit, margin, raised, cost_basis,
             roi_per_point, total_roi>>

NothingComputed ==
    /\ S = <<>> /\ net_premium_points = 0 /\ total_payoff_points = <<>>
    /\ pnl_currency = <<>>
    /\ max_profit = 0 /\ max_loss = 0 /\ break_evens = <<>>
    /\ net_cost_credit = 0 /\ margin = 0 /\ raised = "" /\ cost_basis = 0
    /\ roi_per_point = <<>> /\ total_roi = NaN

\* lines 49-60: the multiplier and the strategy are chosen, nothing is read yet
Init ==
    /\ pc = "sidebar"
    /\ multiplier \in Multipliers
    /\ strategy_name \in StrategyNames
    /\ strategy_details = <<>> /\ strikes = <<>> /\ error_message = ""
    /\ NothingComputed

Read(details, strike_list, err) ==
    /\ strategy_details' = details
    /\ strikes' = strike_list
    /\ error_message' = err
    /\ pc' = "main"
    /\ UNCHANGED <<multiplier, strategy_name>>
    /\ UNCHANGED outputs

\* lines 61-69
BullCallSpreadInputs ==
    /\ pc = "sidebar" /\ strategy_name = "Bull Call Spread"
    /\ \E k_low, k_high \in Strikes, p_low, p_high \in Premiums :
          Read(<<Leg("long_call", k_low, p_low), Leg("short_call", k_high, p_high)>>,
               <<k_low, k_high>>,
               IF k_low >= k_high THEN "long call must be below short call" ELSE "")

\* lines 71-79
BearPutSpreadInputs ==
    /\ pc = "sidebar" /\ strategy_name = "Bear Put Spread"
    /\ \E k_high, k_low \in Strikes, p_high, p_low \in Premiums :
          Read(<<Leg("long_put", k_high, p_high), Leg("short_put", k_low, p_low)>>,
               <<k_low, k_high>>,
               IF k_low >= k_high THEN "long put must be above short put" ELSE "")

\* lines 81-89
BullPutSpreadInputs ==
    /\ pc = "sidebar" /\ strategy_name = "Bull Put Spread"
    /\ \E k_high, k_low \in Strikes, p_high, p_low \in Premiums :
          Read(<<Leg("short_put", k_high, p_high), Leg("long_put", k_low, p_low)>>,
               <<k_low, k_high>>,
               IF k_low >= k_high THEN "short put must be above long put" ELSE "")

\* lines 91-99
BearCallSpreadInputs ==
    /\ pc = "sidebar" /\ strategy_name = "Bear Call Spread"
    /\ \E k_low, k_high \in Strikes, p_low, p_high \in Premiums :
          Read(<<Leg("short_call", k_low, p_low), Leg("long_call", k_high, p_high)>>,
               <<k_low, k_high>>,
               IF k_low >= k_high THEN "short call must be below long call" ELSE "")

\* lines 101-111
ButterflySpreadInputs ==
    /\ pc = "sidebar" /\ strategy_name = "Butterfly Spread"
    /\ \E k_low, k_mid, k_high \in Strikes, p_low, p_mid, p_high \in Premiums :
          Read(<<Leg("long_call", k_low, p_low), Leg("short_call", k_mid, p_mid),
                 Leg("short_call", k_mid, p_mid), Leg("long_call", k_high, p_high)>>,
               <<k_low, k_mid, k_high>>,
               IF ~(k_low < k_mid /\ k_mid < k_high)
               THEN "strikes must be wing 1 < body < wing 2" ELSE "")

\* lines 113-125
IronCondorInputs ==
    /\ pc = "sidebar" /\ strategy_name = "Iron Condor"
    /\ \E k_lp, k_sp, k_sc, k_lc \in Strikes, p_lp, p_sp, p_sc, p_lc \in Premiums :
          Read(<<Leg("long_put", k_lp, p_lp), Leg("short_put", k_sp, p_sp),
                 Leg("short_call", k_sc, p_sc), Leg("long_call", k_lc, p_lc)>>,
               <<k_lp, k_sp, k_sc, k_lc>>,
               IF ~(k_lp < k_sp /\ k_sp < k_sc /\ k_sc < k_lc)
               THEN "strikes must be increasing" ELSE "")

\* lines 129-131
ShowError ==
    /\ pc = "main" /\ error_message # ""
    /\ pc' = "error"
    /\ UNCHANGED inputs /\ UNCHANGED outputs

\* lines 132-135
BuildGrid ==
    /\ pc = "main" /\ error_message = "" /\ strategy_details # <<>>
    /\ S' = PriceGrid(strikes)
    /\ pc' = "payoff"
    /\ UNCHANGED inputs
    /\ UNCHANGED <<net_premium_points, total_payoff_points, pnl_currency,
                   max_profit, max_loss,
                   break_evens, net_cost_credit, margin, raised, cost_basis,
                   roi_per_point, total_roi>>

\* lines 136-138
NetPayoff ==
    /\ pc = "payoff"
    /\ net_premium_points' = NetPremiumPoints(strategy_details)
    /\ total_payoff_points' = calculate_payoff(S, strategy_details)
    /\ pnl_currency' = PnlCurrency(total_payoff_points', net_premium_points', multiplier)
    /\ max_profit' = SeqMax(pnl_currency')
    /\ max_loss' = SeqMin(pnl_currency')
    /\ pc' = "break_even"
    /\ UNCHANGED inputs
    /\ UNCHANGED <<S, break_evens, net_cost_credit, margin, raised, cost_basis,
                   roi_per_point, total_roi>>

\* line 139
FindBreakEvens ==
    /\ pc = "break_even"
    /\ break_evens' = find_break_even_points(S, pnl_currency)
    /\ pc' = "margin"
    /\ UNCHANGED inputs
    /\ UNCHANGED <<S, net_premium_points, total_payoff_points, pnl_currency,
                   max_profit, max_loss,
                   net_cost_credit, margin, raised, cost_basis, roi_per_point,
                   total_roi>>

\* lines 140-141
ComputeMargin ==
    /\ pc = "margin"
    /\ net_cost_credit' = net_premium_points * multiplier
    /\ LET r == calculate_us_margin(strategy_name, strategy_details, multiplier)
       IN /\ margin' = r.value
          /\ raised' = r.raised
          /\ pc' = IF r.raised = "" THEN "roi" ELSE "raised"
    /\ UNCHANGED inputs
    /\ UNCHANGED <<S, net_premium_points, total_payoff_points, pnl_currency,
                   max_profit, max_loss,
                   break_evens, cost_basis, roi_per_point, total_roi>>

\* lines 143-159
ComputeRoi ==
    /\ pc = "roi"
    /\ cost_basis' = CostBasis(net_cost_credit, margin)
    /\ roi_per_point' = RoiPerPoint(pnl_currency, cost_basis')
    /\ total_roi' = TotalRoi(max_profit, net_cost_credit, cost_basis')
    /\ pc' = "done"
    /\ UNCHANGED inputs
    /\ UNCHANGED <<S, net_premium_points, total_payoff_points, pnl_currency,
                   max_profit, max_loss,
                   break_evens, net_cost_credit, margin, raised>>

Next ==
    \/ BullCallSpreadInputs \/ BearPutSpreadInputs \/ BullPutSpreadInputs
    \/ BearCallSpreadInputs \/ ButterflySpreadInputs \/ IronCondorInputs
    \/ ShowError
    \/ BuildGrid \/ NetPayoff \/ FindBreakEvens \/ ComputeMargin \/ ComputeRoi

Spec == Init /\ [][Next]_vars

\* ------------------------------------------------- the engine called directly
\* The analysis of lines 132-159 entered by a caller that supplies the
\* strategy name and the leg list itself, without the sidebar's strike checks.
UnsupportedName == "Straddle"

LegTypes == {"long_call", "short_call", "long_put", "short_put"}

TwoLegs(t1, t2) ==
    {<<Leg(t1, k1, p1), Leg(t2, k2, p2)>> :
        k1 \in EngineStrikes, k2 \in EngineStrikes,
        p1 \in EnginePremiums, p2 \in EnginePremiums}

ShapeLegs(name) ==
    CASE name = "Bull Call Spread" -> TwoLegs("long_call", "short_call")
      [] name = "Bear Put Spread" -> TwoLegs("long_put", "short_put")
      [] name = "Bull Put Spread" -> TwoLegs("short_put", "long_put")
      [] name = "Bear Call Spread" -> TwoLegs("short_call", "long_call")
      [] name = "Butterfly Spread" ->
           {<<Leg("long_call", k1, p1), Leg("short_call", k2, p2),
              Leg("short_call", k2, p2), Leg("long_call", k3, p3)>> :
               k1 \in EngineStrikes, k2 \in EngineStrikes, k3 \in EngineStrikes,
               p1 \in EnginePremiums, p2 \in EnginePremiums, p3 \in EnginePremiums}
      [] name = "Iron Condor" ->
           {<<a[1], a[2], b[1], b[2]>> :
               a \in TwoLegs("long_put", "short_put"),
               b \in TwoLegs("short_call", "long_call")}

SingleLegs ==
    {<<Leg(t, k, p)>> : t \in LegTypes, k \in EngineStrikes, p \in EnginePremiums}

EngineCalls ==
    UNION {{[name |-> n, details |-> d] : n \in {name, UnsupportedName},
                                           d \in ShapeLegs(name)} :
              name \in StrategyNames}
    \cup {[name |-> n, details |-> d] : n \in StrategyNames \cup {UnsupportedName},
                                         d \in SingleLegs}

EngineInit ==
    /\ pc = "main"
    /\ error_message = ""
    /\ multiplier \in Multipliers
    /\ \E c \in EngineCalls :
          /\ strategy_name = c.name
          /\ strategy_details = c.details
          /\ strikes = k_values(c.details)
    /\ NothingComputed

EngineNext == BuildGrid \/ NetPayoff \/ FindBreakEvens \/ ComputeMargin \/ ComputeRoi

EngineSpec == EngineInit /\ [][EngineNext]_vars

\* ------------------------------------------------------------------ claims
\* the payoff curve of lines 136-138 has just been computed
PayoffComputed == pc = "break_even"
\* find_break_even_points has just returned (line 139)
BreakEvensFound == pc = "margin"
\* calculate_us_margin has been called (line 141)
MarginCalled == pc \in {"roi", "done", "raised"}

\* C1: at every grid price the net currency payoff is (the sum over the legs
\* of +intrinsic for a long and -intrinsic for a short leg, plus the sum of
\* +premium for short and -premium for long legs) * multiplier; a call is
\* worth max(0, S - strike), a put max(0, strike - S); the doubled body leg
\* of a butterfly counts twice in both sums.
C1_NetPayoff ==
    PayoffComputed =>
        /\ Len(pnl_currency) = Len(S)
        /\ \A i \in 1..Len(S) :
              LET legs == strategy_details
                  isLong(j) == legs[j].type \in {"long_call", "long_put"}
                  isCall(j) == legs[j].type \in {"long_call", "short_call"}
                  worth(j) == IF isCall(j)
                              THEN (IF S[i] > legs[j].strike THEN S[i] - legs[j].strike ELSE 0)
                              ELSE (IF legs[j].strike > S[i] THEN legs[j].strike - S[i] ELSE 0)
                  signed(j) == IF j > Len(legs) THEN 0
                               ELSE IF isLong(j) THEN worth(j) ELSE -worth(j)
                  paid(j) == IF j > Len(legs) THEN 0
                             ELSE IF isLong(j) THEN -legs[j].premium ELSE legs[j].premium
              IN /\ Len(legs) <= 4
                 /\ pnl_currency[i] =
                       (signed(1) + signed(2) + signed(3) + signed(4)
                        + paid(1) + paid(2) + paid(3) + paid(4)) * multiplier

\* a butterfly whose doubled body is in the money at some grid price
C1_Witness ==
    /\ pc = "done"
    /\ Len(strategy_details) = 4
    /\ strategy_details[2] = strategy_details[3]
    /\ strategy_details[1].strike < strategy_details[2].strike
    /\ \E i \in 1..Len(S) :
          /\ S[i] > strategy_details[2].strike
          /\ pnl_currency[i] # net_premium_points * multiplier

\* C2 (as claimed): a single long call, strike K, premium p > 0, on a grid
\* that brackets K + p has exactly one break-even, within half a grid step
\* of K + p, also when K + p is a grid point.
C2_SingleLongCallOneBreakEven ==
    (/\ BreakEvensFound
     /\ Len(strategy_details) = 1
     /\ strategy_details[1].type = "long_call"
     /\ strategy_details[1].premium > 0
     /\ S[1] < strategy_details[1].strike + strategy_details[1].premium
     /\ S[Len(S)] > strategy_details[1].strike + strategy_details[1].premium)
    => /\ Len(break_evens) = 1
       /\ LET be == break_evens[1]
              target == strategy_details[1].strike + strategy_details[1].premium
          IN /\ be.kind = "real"
             /\ 2 * (be.num - target * be.den) <= GridStep * be.den
             /\ 2 * (target * be.den - be.num) <= GridStep * be.den

\* C3 (as claimed): a Bull Put Spread or Bear Call Spread is margined at
\* (highest strike - lowest strike) * multiplier and an Iron Condor at the
\* width of its call side * multiplier, for every premium assignment.
C3_MarginForEveryPremium ==
    MarginCalled =>
        LET legs == strategy_details
        IN /\ strategy_name \in {"Bull Put Spread", "Bear Call Spread"}
                => margin = Abs(legs[1].strike - legs[2].strike) * multiplier
           /\ strategy_name = "Iron Condor"
                => margin = Abs(legs[4].strike - legs[3].strike) * multiplier

\* C3 (amended): the same, for every premium assignment whose net premium
\* (short premiums minus long premiums) is > 0; when the net premium is
\* <= 0 the margin is 0.
C3_MarginForNetCredit ==
    MarginCalled =>
        LET legs == strategy_details
            credit2 == legs[1].premium - legs[2].premium
            credit4 == legs[2].premium + legs[3].premium
                       - legs[1].premium - legs[4].premium
        IN /\ strategy_name \in {"Bull Put Spread", "Bear Call Spread"}
                => margin = IF credit2 > 0
                            THEN Abs(legs[1].strike - legs[2].strike) * multiplier
                            ELSE 0
           /\ strategy_name = "Iron Condor"
                => margin = IF credit4 > 0
                            THEN Abs(legs[4].strike - legs[3].strike) * multiplier
                            ELSE 0

\* the iron condor 90/95/105/110, multiplier 100, margined at 500.00
C3_Witness ==
    /\ pc = "done"
    /\ strategy_name = "Iron Condor"
    /\ strikes = <<9000, 9500, 10500, 11000>>
    /\ multiplier = 100
    /\ margin = 50000

\* C4: calculate_us_margin returns 0, and does not raise, for Bull Call
\* Spread, Bear Put Spread and Butterfly Spread whatever the strikes and
\* premiums (a positive net premium included) and for a strategy name that
\* is none of the six, whatever the legs.
C4_ZeroMarginForDebitShapes ==
    (/\ MarginCalled
     /\ strategy_name \in {"Bull Call Spread", "Bear Put Spread",
                            "Butterfly Spread", UnsupportedName})
    => (raised = "" /\ margin = 0)

\* a Bull Call Spread whose short leg pays more than its long leg costs
C4_Witness ==
    /\ pc = "done"
    /\ strategy_name = "Bull Call Spread"
    /\ Len(strategy_details) = 2
    /\ strategy_details[2].premium > strategy_details[1].premium
    /\ net_cost_credit > 0
    /\ margin = 0

\* C5: for each of the six strategy names, every assignment of the strikes
\* to the legs (orders the sidebar rejects and equal strikes included),
\* non-negative premiums and a positive multiplier, the margin returned by
\* calculate_us_margin is >= 0.
C5_MarginNonNegative ==
    (/\ MarginCalled
     /\ raised = ""
     /\ strategy_name \in StrategyNames)
    => margin >= 0

\* an iron condor whose long call is struck below its short call, margined
C5_Witness ==
    /\ pc = "done"
    /\ strategy_name = "Iron Condor"
    /\ Len(strategy_details) = 4
    /\ strategy_details[4].strike < strategy_details[3].strike
    /\ margin > 0

\* C6 (as claimed): a Bull Call Spread accepted by the sidebar (K1 < K2)
\* with net debit d = p1 - p2 > 0 reports max loss -d*m, max profit
\* ((K2 - K1) - d)*m and, when d < K2 - K1, exactly one break-even, within
\* half a grid step of K1 + d.
C6_BullCallSpreadFigures ==
    (/\ pc = "done"
     /\ strategy_name = "Bull Call Spread"
     /\ strategy_details[1].premium > strategy_details[2].premium)
    => LET K1 == strategy_details[1].strike
           K2 == strategy_details[2].strike
           d == strategy_details[1].premium - strategy_details[2].premium
       IN /\ max_loss = (-d) * multiplier
          /\ max_profit = ((K2 - K1) - d) * multiplier
          /\ d < K2 - K1 =>
                /\ Len(break_evens) = 1
                /\ break_evens[1].kind = "real"
                /\ 2 * (break_evens[1].num - (K1 + d) * break_evens[1].den)
                      <= GridStep * break_evens[1].den
                /\ 2 * ((K1 + d) * break_evens[1].den - break_evens[1].num)
                      <= GridStep * break_evens[1].den

C8_BasisAndTotalRoi ==
    pc = "done" =>
        /\ net_cost_credit < 0 => cost_basis = -net_cost_credit
        /\ net_cost_credit >= 0 => cost_basis = margin
        /\ (cost_basis > 0 /\ net_cost_credit < 0) =>
              /\ total_roi.kind = "real"
              /\ total_roi.num * cost_basis = 100 * max_profit * total_roi.den
        /\ (cost_basis > 0 /\ net_cost_credit >= 0) =>
              /\ total_roi.kind = "real"
              /\ total_roi.num * cost_basis = 100 * net_cost_credit * total_roi.den
        /\ (/\ strategy_details = <<[type |-> "short_put", strike |-> 10000, premium |-> 300],
                                     [type |-> "long_put", strike |-> 9000, premium |-> 120]>>
            /\ strategy_name = "Bull Put Spread"
            /\ multiplier = 100) =>
              /\ net_cost_credit = 18000
              /\ margin = 100000
              /\ total_roi = [kind |-> "real", num |-> 18, den |-> 1]

\* the Bull Put Spread 100 @3.00 / 90 @1.20, multiplier 100, analysed
C8_Witness ==
    /\ pc = "done"
    /\ strategy_name = "Bull Put Spread"
    /\ strategy_details = <<[type |-> "short_put", strike |-> 10000, premium |-> 300],
                            [type |-> "long_put", strike |-> 9000, premium |-> 120]>>
    /\ multiplier = 100
    /\ total_roi = [kind |-> "real", num |-> 18, den |-> 1]

\* C9: no analysis divides by zero: no break-even, per-point ROI or total
\* ROI is the result of a division by a zero denominator; when the capital
\* basis is 0 every per-point ROI is NaN and the total ROI is +infinity,
\* while the payoff curve, max profit, max loss, break-evens and margin are
\* computed as usual.
C9_NoDivisionByZero ==
    /\ \A k \in 1..Len(break_evens) : break_evens[k].kind = "real"
    /\ \A i \in 1..Len(roi_per_point) : roi_per_point[i].kind \in {"real", "nan"}
    /\ total_roi.kind \in {"real", "inf", "nan"}
    /\ pc = "done" =>
          /\ total_roi.kind \in {"real", "inf"}
          /\ Len(roi_per_point) = Len(S)
          /\ Len(pnl_currency) = Len(S)
          /\ Len(S) > 0
          /\ \A i \in 1..Len(S) :
                /\ pnl_currency[i] <= max_profit
                /\ pnl_currency[i] >= max_loss
                /\ cost_basis > 0 => roi_per_point[i].kind = "real"
          /\ cost_basis >= 0
          /\ cost_basis = 0 =>
                /\ \A i \in 1..Len(S) : roi_per_point[i] = NaN
                /\ total_roi = PosInf
                /\ margin = 0

\* an analysis that ends with a capital basis of 0 and a break-even
C9_Witness ==
    /\ pc = "done"
    /\ cost_basis = 0
    /\ total_roi = PosInf
    /\ break_evens # <<>>

\* C10: for a vertical debit spread with K1 < K2 and net debit d > 0 (Bull
\* Call Spread long K1 / short K2, Bear Put Spread long K2 / short K1) the
\* per-point ROI is exactly -100 at every grid price where the payoff is
\* the max loss, which is every price <= K1 for the call spread and every
\* price >= K2 for the put spread, and no per-point ROI is below -100.
C10_MaxLossIsMinusHundred ==
    (/\ pc = "done"
     /\ strategy_name \in {"Bull Call Spread", "Bear Put Spread"}
     /\ strategy_details[1].premium > strategy_details[2].premium)
    => LET K1 == strikes[1]
           K2 == strikes[2]
           minus100 == [kind |-> "real", num |-> -100, den |-> 1]
       IN \A i \in 1..Len(S) :
            /\ pnl_currency[i] = max_loss => roi_per_point[i] = minus100
            /\ (strategy_name = "Bull Call Spread" /\ S[i] <= K1)
                  => (pnl_currency[i] = max_loss /\ roi_per_point[i] = minus100)
            /\ (strategy_name = "Bear Put Spread" /\ S[i] >= K2)
                  => (pnl_currency[i] = max_loss /\ roi_per_point[i] = minus100)
            /\ roi_per_point[i].kind = "real"
            /\ roi_per_point[i].num >= -100 * roi_per_point[i].den

\* a Bear Put Spread with a net debit whose ROI is -100 at a price >= K2
C10_Witness ==
    /\ pc = "done"
    /\ strategy_name = "Bear Put Spread"
    /\ strategy_details[1].premium > strategy_details[2].premium
    /\ \E i \in 1..Len(S) :
          /\ S[i] >= strikes[2]
          /\ roi_per_point[i] = [kind |-> "real", num |-> -100, den |-> 1]
    /\ \E i \in 1..Len(S) : roi_per_point[i].num > 0

====
